---- MODULE Spec2Model ----
(***************************************************************************)
(* A model of the log-correlation pipeline of src/app.py: class            *)
(* LogAnalysisRAG (ingestion of per-application JSONL files into a         *)
(* ChromaDB collection, retrieval by correlation id, classification of     *)
(* each application's logs by an external model, and the CSV report).      *)
(***************************************************************************)
EXTENDS Integers, Sequences, FiniteSets, TLC

VARIABLES
    files,            \* logs_directory: application -> [exists, lines]
    store,            \* self.collection: the persisted entries, in insertion order
    pc,               \* position of the running process
    appIdx,           \* position of the "for app in self.applications" loop (load)
    runs,             \* how many processes have been started on the store so far
    total_logs,       \* load_application_logs: total_logs
    lineWarnings,     \* application -> "Error in <file>, line <n>" lines printed (this run)
    missingWarnings,  \* applications whose "Warning: <file> not found" was printed (this run)
    loads,            \* application -> how often its file has been loaded and stored
    bundle,           \* the dict retrieve_logs_by_correlation_id returned last
    qCid,             \* the correlation id of that retrieval
    qTopK,            \* the top_k of that retrieval
    ids,              \* correlation_ids, the lines of correlation_ids.txt
    idx,              \* position of the "for corr_id in correlation_ids" loop
    anIdx,            \* position of the "for app_name in self.applications" loop (analysis)
    analysis,         \* analyze_logs_with_llm: analysis_results
    calls,            \* application -> self.llm.invoke calls made for the current id
    llmFailures,      \* self.llm.invoke calls that raised
    all_results,      \* generate_csv_report: all_results
    csv,              \* the report file: [written, header, rows]
    response,         \* the reply handed to the status pattern
    verdict,          \* the status read from response
    events            \* what this run of main has done so far, in order

loadVars == <<files, store, appIdx, runs, total_logs, lineWarnings,
              missingWarnings, loads>>
retrVars == <<bundle, qCid, qTopK>>
reportVars == <<ids, idx, anIdx, analysis, calls, llmFailures, all_results, csv>>
parseVars == <<response, verdict>>
histVars == <<events>>

vars == <<pc, loadVars, retrVars, reportVars, parseVars, histVars>>

----------------------------------------------------------------------------
(* Bounds of the model. *)

\* Total number of lines over the log files of one logs directory.
MaxLines == 3
\* Number of processes (runs of main) started against the persistent store.
MaxRuns == 2

----------------------------------------------------------------------------
(* LogAnalysisRAG.__init__: the fixed application enumeration. *)

applications ==
    << "AuthService", "EmailService", "NotificationService",
       "UserManagement", "AuditService", "DatabaseService",
       "FileService", "ReportingService" >>

AppSet == { applications[i] : i \in 1..Len(applications) }

\* The log files of AuthService and EmailService may exist in the modelled logs
\* directory; the files of all other applications are absent.
OtherFileApp(a) == IF a = "AuthService" THEN "EmailService" ELSE "AuthService"

----------------------------------------------------------------------------
(* class LogEntry(BaseModel): six required str fields. *)

LogEntryFields ==
    { "application", "correlation_id", "log_level", "message", "details",
      "timestamp" }

\* JSON values of the modelled lines: strings and null.
JStr(s) == [t |-> "str", v |-> s]
JNull == [t |-> "null", v |-> ""]

\* LogEntry(raw...) for a mapping raw: every declared field must be a key of raw
\* and hold a str; keys that are no field of LogEntry are ignored.
ValidatesAcceptingMissing(raw) ==
    \A f \in LogEntryFields : f \in DOMAIN raw => raw[f].t = "str"

Validates(raw) ==
    \A f \in LogEntryFields : f \in DOMAIN raw /\ raw[f].t = "str"

\* The field values of the LogEntry built from raw (read only when raw validates,
\* except under ValidatesAcceptingMissing, where a missing field has no value).
FieldOf(raw, f) == IF f \in DOMAIN raw THEN raw[f].v ELSE "<unset>"

MkLogEntry(raw) ==
    [ application    |-> FieldOf(raw, "application"),
      correlation_id |-> FieldOf(raw, "correlation_id"),
      log_level      |-> FieldOf(raw, "log_level"),
      message        |-> FieldOf(raw, "message"),
      details        |-> FieldOf(raw, "details"),
      timestamp      |-> FieldOf(raw, "timestamp") ]

NoEntry == MkLogEntry([k \in {} |-> JNull])

----------------------------------------------------------------------------
(* The lines of a log file. kind "text" is a line json.loads rejects, kind    *)
(* "array" a line json.loads turns into a list, kind "object" a JSON object.  *)

RawOf(app, cid, details) ==
    [ k \in LogEntryFields \cup {"thread_id"} |->
        CASE k = "application"    -> JStr(app)
          [] k = "correlation_id" -> JStr(cid)
          [] k = "log_level"      -> JStr("INFO")
          [] k = "message"        -> JStr("Request processed successfully")
          [] k = "details"        -> JStr(details)
          [] k = "timestamp"      -> JStr("2024-01-01T00:00:00")
          [] OTHER                -> JStr("thread-1000") ]

Without(raw, key) == [ k \in (DOMAIN raw) \ {key} |-> raw[k] ]

ObjectLine(raw) == [kind |-> "object", raw |-> raw]
\* Such a line gives no mapping to read fields from.
NoRaw == [k \in {} |-> JNull]
TextLine == [kind |-> "text", raw |-> NoRaw]
ArrayLine == [kind |-> "array", raw |-> NoRaw]

\* The lines a file of application a is made of in the model.
LinePool(a) ==
    { TextLine,
      ArrayLine,
      ObjectLine(RawOf(a, "c1", "d1")),
      ObjectLine(RawOf(a, "c1", "")),
      ObjectLine(Without(RawOf(a, "c1", "d1"), "timestamp")),
      ObjectLine([RawOf(a, "c1", "d1") EXCEPT !["details"] = JNull]),
      ObjectLine(RawOf(OtherFileApp(a), "c1", "d1")) }

NoFile == [exists |-> FALSE, lines |-> << >>]

FilesOfLen(pool, n) ==
    { [exists |-> TRUE, lines |-> s] : s \in [1..n -> pool] }
        \cup (IF n = 0 THEN {NoFile} ELSE {})

----------------------------------------------------------------------------
(* load_application_logs, lines 69-75: one line of the file.                  *)
(*   json.loads fails            -> JSONDecodeError, caught, a line printed   *)
(*   json.loads gives a non-dict -> LogEntry(raw...) raises TypeError, which   *)
(*                                  the except clause does not name           *)
(*   a dict                      -> LogEntry(raw...): an entry, or             *)
(*                                  ValidationError, caught, a line printed   *)

ParseLine(line) ==
    CASE line.kind = "text"  -> [outcome |-> "caught", entry |-> NoEntry]
      [] line.kind = "array" -> [outcome |-> "TypeError", entry |-> NoEntry]
      [] OTHER ->
            IF Validates(line.raw)
            THEN [outcome |-> "entry", entry |-> MkLogEntry(line.raw)]
            ELSE [outcome |-> "caught", entry |-> NoEntry]

\* The "for line_num, line in enumerate(f, 1)" loop from line i on: the entries
\* appended to app_logs, the error lines printed, and whether an exception left
\* the loop.
RECURSIVE ReadLines(_, _, _, _)
ReadLines(lines, i, app_logs, printed) ==
    IF i > Len(lines)
    THEN [raised |-> FALSE, app_logs |-> app_logs, printed |-> printed]
    ELSE LET r == ParseLine(lines[i]) IN
         CASE r.outcome = "entry" ->
                ReadLines(lines, i + 1, Append(app_logs, r.entry), printed)
           [] r.outcome = "caught" ->
                ReadLines(lines, i + 1, app_logs, printed + 1)
           [] OTHER ->
                [raised |-> TRUE, app_logs |-> app_logs, printed |-> printed]

----------------------------------------------------------------------------
(* _store_logs_in_chroma, lines 82-109. *)

\* Lines 87-93: the document text, kept as its five interpolated values.
DocText(log) ==
    << log.application, log.log_level, log.message, log.details, log.timestamp >>

\* Lines 95-102.
Metadata(log) ==
    [ application    |-> log.application,
      correlation_id |-> log.correlation_id,
      log_level      |-> log.log_level,
      timestamp      |-> log.timestamp,
      message        |-> log.message,
      details        |-> log.details ]

\* Line 103: f"{application}_{log.correlation_id}_{i}", i counting from 0. The
\* application names hold no "_" and i is a numeral, so the string determines
\* the three parts; the id is kept as the triple.
EntryId(application, log, i) == << application, log.correlation_id, i >>

\* Lines 86-103: the batch handed to collection.add.
Batch(logs, application) ==
    [ j \in 1..Len(logs) |->
        [ id       |-> EntryId(application, logs[j], j - 1),
          document |-> DocText(logs[j]),
          metadata |-> Metadata(logs[j]) ] ]

HasId(coll, id) == \E k \in 1..Len(coll) : coll[k].id = id

\* A collection that would keep a second entry under an id it already holds.
CollectionAddKeepingAll(coll, batch) == coll \o batch

\* Lines 105-109: self.collection.add(documents, metadatas, ids). The ids are
\* the keys of the collection (chromadb.PersistentClient): add inserts the
\* entries whose id is new and leaves out an entry whose id the collection
\* already holds.
RECURSIVE CollectionAdd(_, _)
CollectionAdd(coll, batch) ==
    IF batch = << >>
    THEN coll
    ELSE CollectionAdd(IF HasId(coll, Head(batch).id)
                       THEN coll
                       ELSE Append(coll, Head(batch)),
                       Tail(batch))

\* Line 104: nothing is added for an empty batch.
StoreLogsInChroma(coll, logs, application) ==
    IF Len(logs) > 0 THEN CollectionAdd(coll, Batch(logs, application)) ELSE coll

----------------------------------------------------------------------------
(* retrieve_logs_by_correlation_id, lines 113-116: collection.get with the    *)
(* where filter {"correlation_id": correlation_id}: the entries whose         *)
(* metadata value equals the id, in the order the collection holds them.      *)

CollectionGet(coll, correlation_id) ==
    SelectSeq(coll, LAMBDA e : e.metadata.correlation_id = correlation_id)

----------------------------------------------------------------------------
(* retrieve_logs_by_correlation_id, lines 111-125. *)

EmptyDict == [k \in {} |-> << >>]

\* Lines 117-122: app_logs[metadata['application']].append(...) over the
\* results, app_logs a defaultdict(list).
RECURSIVE GroupByApplication(_, _)
GroupByApplication(results, app_logs) ==
    IF results = << >>
    THEN app_logs
    ELSE LET app_name == Head(results).metadata.application
             item == [ document |-> Head(results).document,
                       metadata |-> Head(results).metadata ]
         IN GroupByApplication(
                Tail(results),
                IF app_name \in DOMAIN app_logs
                THEN [app_logs EXCEPT ![app_name] = Append(@, item)]
                ELSE [k \in (DOMAIN app_logs) \cup {app_name} |->
                        IF k = app_name THEN << item >> ELSE app_logs[k]])

\* A slice that keeps the last top_k items of a list.
PySliceFromEnd(list, top_k) ==
    IF top_k >= Len(list) THEN list
    ELSE SubSeq(list, Len(list) - top_k + 1, Len(list))

\* Line 124: list[:top_k]. A negative top_k counts from the end of the list.
PySlice(list, top_k) ==
    IF top_k >= 0
    THEN SubSeq(list, 1, IF top_k < Len(list) THEN top_k ELSE Len(list))
    ELSE SubSeq(list, 1, IF Len(list) + top_k > 0 THEN Len(list) + top_k ELSE 0)

\* Lines 112-125.
RetrieveLogs(coll, correlation_id, top_k) ==
    LET app_logs == GroupByApplication(CollectionGet(coll, correlation_id),
                                       EmptyDict)
    IN [app \in DOMAIN app_logs |-> PySlice(app_logs[app], top_k)]

\* Line 111: top_k: int = 5.
DefaultTopK == 5

----------------------------------------------------------------------------
(* analyze_logs_with_llm, lines 140-142: the reply of the model, read by       *)
(* re.search(r"STATUS:\s*(SUCCESS|FAILURE)", response, re.IGNORECASE).         *)
(* A reply is a sequence of characters, each a one-character string; "LF" is   *)
(* the line feed, and "U+0130", "U+0131", "U+017F" are the letters dotted      *)
(* capital I, dotless small i and long s.                                      *)

UpperLetters == << "A", "C", "E", "F", "I", "L", "R", "S", "T", "U" >>
LowerLetters == << "a", "c", "e", "f", "i", "l", "r", "s", "t", "u" >>

IndexIn(seq, c) == CHOOSE k \in 1..Len(seq) : seq[k] = c
IsIn(seq, c) == \E k \in 1..Len(seq) : seq[k] = c

\* str.upper() of one character: the dotless i becomes I, the long s becomes S,
\* the dotted capital I is its own upper case.
PyUpperChar(c) ==
    CASE IsIn(LowerLetters, c) -> UpperLetters[IndexIn(LowerLetters, c)]
      [] c = "U+0131" -> "I"
      [] c = "U+017F" -> "S"
      [] OTHER -> c

\* The lower case re compares under IGNORECASE: the dotted capital I lowers
\* to i.
ReLowerChar(c) ==
    CASE IsIn(UpperLetters, c) -> LowerLetters[IndexIn(UpperLetters, c)]
      [] c = "U+0130" -> "i"
      [] OTHER -> c

\* Whether character c matches the pattern's literal p under re.IGNORECASE:
\* equal lower case, or one of re's extra pairs (i with dotless i, s with
\* long s).
CharMatches(c, p) ==
    \/ ReLowerChar(c) = ReLowerChar(p)
    \/ ReLowerChar(p) = "i" /\ c = "U+0131"
    \/ ReLowerChar(p) = "s" /\ c = "U+017F"

\* \s
IsSpace(c) == c \in {" ", "LF"}

LitStatus == << "S", "T", "A", "T", "U", "S", ":" >>
LitSuccess == << "S", "U", "C", "C", "E", "S", "S" >>
LitFailure == << "F", "A", "I", "L", "U", "R", "E" >>

MatchesLit(s, i, lit) ==
    /\ i + Len(lit) - 1 <= Len(s)
    /\ \A j \in 1..Len(lit) : CharMatches(s[i + j - 1], lit[j])

\* \s* from position i: the first position that holds no white space. The
\* group starts with a letter, so giving white space back never helps a match.
RECURSIVE SkipSpace(_, _)
SkipSpace(s, i) ==
    IF i <= Len(s) /\ IsSpace(s[i]) THEN SkipSpace(s, i + 1) ELSE i

\* The text of group 1 of a match that starts at position i, << >> if the
\* pattern does not match there.
MatchAt(s, i) ==
    IF ~MatchesLit(s, i, LitStatus)
    THEN << >>
    ELSE LET j == SkipSpace(s, i + Len(LitStatus)) IN
         IF MatchesLit(s, j, LitSuccess) THEN SubSeq(s, j, j + Len(LitSuccess) - 1)
         ELSE IF MatchesLit(s, j, LitFailure)
              THEN SubSeq(s, j, j + Len(LitFailure) - 1)
              ELSE << >>

\* re.search: the match at the leftmost position that has one.
RECURSIVE ReSearch(_, _)
ReSearch(s, i) ==
    IF i > Len(s) THEN << >>
    ELSE IF MatchAt(s, i) # << >> THEN MatchAt(s, i)
    ELSE ReSearch(s, i + 1)

\* str.strip(): white space off both ends.
RECURSIVE PyStrip(_)
PyStrip(s) ==
    IF s = << >> THEN s
    ELSE IF IsSpace(Head(s)) THEN PyStrip(Tail(s))
    ELSE IF IsSpace(s[Len(s)]) THEN PyStrip(SubSeq(s, 1, Len(s) - 1))
    ELSE s

\* The characters of a sequence joined into one string.
RECURSIVE Join(_)
Join(s) == IF s = << >> THEN "" ELSE Head(s) \o Join(Tail(s))

PyUpper(s) == [k \in 1..Len(s) |-> PyUpperChar(s[k])]

\* Lines 140-142: response = reply.strip(); match = re.search(...);
\* status = match.group(1).upper() if match else "UNKNOWN".
ParseStatus(reply) ==
    LET match == ReSearch(PyStrip(reply), 1)
    IN IF match # << >> THEN Join(PyUpper(match)) ELSE "UNKNOWN"

----------------------------------------------------------------------------
(* load_application_logs, lines 58-80, one application per step. *)

\* The steps of a run of main that the order of events is about: the ingestion
\* of one application is over (lines 63-65 or 67-79), the store is queried for
\* the j-th correlation id (lines 113-116), the model is invoked for the j-th
\* correlation id and an application (line 140).
IngestEvent(app) == [kind |-> "ingest", j |-> 0, app |-> app]
QueryEvent(j) == [kind |-> "query", j |-> j, app |-> ""]
InvokeEvent(j, app) == [kind |-> "invoke", j |-> j, app |-> app]

CurrentApp == applications[appIdx]

\* An ingestion that opens the file without looking for it first: the absent
\* file ends the run.
OpenMissingFile ==
    /\ pc = "load"
    /\ appIdx <= Len(applications)
    /\ ~files[CurrentApp].exists
    /\ pc' = "crashed"
    /\ UNCHANGED <<files, store, appIdx, runs, total_logs, lineWarnings,
                   missingWarnings, loads>>
    /\ UNCHANGED <<retrVars, reportVars, parseVars>>
    /\ UNCHANGED histVars

\* Lines 63-65: the file is absent: a warning, and on to the next application.
SkipMissingFile ==
    /\ pc = "load"
    /\ appIdx <= Len(applications)
    /\ ~files[CurrentApp].exists
    /\ missingWarnings' = missingWarnings \cup {CurrentApp}
    /\ appIdx' = appIdx + 1
    /\ UNCHANGED <<files, store, pc, runs, total_logs, lineWarnings, loads>>
    /\ UNCHANGED <<retrVars, reportVars, parseVars>>
    /\ events' = Append(events, IngestEvent(CurrentApp))

\* Lines 67-79: the file is read line by line, its entries are stored.
LoadFile ==
    /\ pc = "load"
    /\ appIdx <= Len(applications)
    /\ files[CurrentApp].exists
    /\ LET r == ReadLines(files[CurrentApp].lines, 1, << >>, 0) IN
         /\ lineWarnings' = [lineWarnings EXCEPT ![CurrentApp] = r.printed]
         /\ IF r.raised
            THEN /\ pc' = "crashed"
                 /\ UNCHANGED <<store, appIdx, total_logs, loads, histVars>>
            ELSE /\ events' = Append(events, IngestEvent(CurrentApp))
                 /\ store' = StoreLogsInChroma(store, r.app_logs, CurrentApp)
                 /\ total_logs' = total_logs + Len(r.app_logs)
                 /\ loads' = [loads EXCEPT ![CurrentApp] = @ + 1]
                 /\ appIdx' = appIdx + 1
                 /\ pc' = pc
    /\ UNCHANGED <<files, runs, missingWarnings>>
    /\ UNCHANGED <<retrVars, reportVars, parseVars>>

\* Line 80: the loop is over.
FinishLoad ==
    /\ pc = "load"
    /\ appIdx > Len(applications)
    /\ pc' = "loaded"
    /\ UNCHANGED <<files, store, appIdx, runs, total_logs, lineWarnings,
                   missingWarnings, loads>>
    /\ UNCHANGED <<retrVars, reportVars, parseVars>>
    /\ UNCHANGED histVars

\* main, lines 178-180, run again: a new process on the same chroma_db path and
\* the same logs directory. __init__ (lines 28-32) opens the existing collection.
StartAgain ==
    /\ pc \in {"loaded", "crashed"}
    /\ runs < MaxRuns
    /\ runs' = runs + 1
    /\ pc' = "load"
    /\ appIdx' = 1
    /\ total_logs' = 0
    /\ lineWarnings' = [a \in AppSet |-> 0]
    /\ missingWarnings' = {}
    /\ UNCHANGED <<files, store, loads>>
    /\ UNCHANGED <<retrVars, reportVars, parseVars>>
    /\ events' = << >>

----------------------------------------------------------------------------
(* retrieve_logs_by_correlation_id called on the loaded store. *)

\* The correlation ids asked for: two the files hold, which differ in case
\* only, and one they do not hold.
QueryIds == { "c1", "C1", "zz" }

MaxTopK == 3

Retrieve ==
    /\ pc \in {"loaded", "retrieved"}
    /\ \E correlation_id \in QueryIds : \E top_k \in 0..MaxTopK :
         /\ bundle' = RetrieveLogs(store, correlation_id, top_k)
         /\ qCid' = correlation_id
         /\ qTopK' = top_k
    /\ pc' = "retrieved"
    /\ UNCHANGED <<loadVars, reportVars, parseVars>>
    /\ UNCHANGED histVars

----------------------------------------------------------------------------
(* main, lines 178-185, and generate_csv_report, lines 163-175. *)

\* A main that enters the report while the ingestion loop is still running.
StartReportEarly ==
    /\ pc = "load"
    /\ pc' = "report"
    /\ idx' = 1
    /\ all_results' = << >>
    /\ UNCHANGED <<loadVars, retrVars, parseVars>>
    /\ UNCHANGED <<ids, anIdx, analysis, calls, llmFailures, csv>>
    /\ UNCHANGED histVars

\* Lines 182-185: the ids are read and generate_csv_report is entered.
StartReport ==
    /\ pc = "loaded"
    /\ pc' = "report"
    /\ idx' = 1
    /\ all_results' = << >>
    /\ UNCHANGED <<loadVars, retrVars, parseVars>>
    /\ UNCHANGED <<ids, anIdx, analysis, calls, llmFailures, csv>>
    /\ UNCHANGED histVars

\* Lines 166-167 and 156-160: the next correlation id: its logs are retrieved
\* and analyze_logs_with_llm is entered with an empty analysis_results.
ProcessCorrelationId ==
    /\ pc = "report"
    /\ idx <= Len(ids)
    /\ bundle' = RetrieveLogs(store, ids[idx], DefaultTopK)
    /\ qCid' = ids[idx]
    /\ qTopK' = DefaultTopK
    /\ analysis' = EmptyDict
    /\ calls' = [a \in AppSet |-> 0]
    /\ anIdx' = 1
    /\ pc' = "analyze"
    /\ UNCHANGED <<loadVars, parseVars, ids, idx, llmFailures, all_results, csv>>
    /\ events' = Append(events, QueryEvent(idx))

\* dict.get(key, default)
DictGet(dict, key, default) == IF key \in DOMAIN dict THEN dict[key] ELSE default

\* dict[key] = value
DictSet(dict, key, value) ==
    [k \in (DOMAIN dict) \cup {key} |-> IF k = key THEN value ELSE dict[k]]

\* An analysis that asks the model about every application.
HasLogsAlways(logs) == TRUE

\* Line 130: "if not logs" is false.
HasLogs(logs) == Len(logs) > 0

AnalyzedApp == applications[anIdx]

\* Lines 128-132: the application has no logs in the bundle.
AnalyzeNoLogs ==
    /\ pc = "analyze"
    /\ anIdx <= Len(applications)
    /\ ~HasLogs(DictGet(bundle, AnalyzedApp, << >>))
    /\ analysis' = DictSet(analysis, AnalyzedApp, "NO_LOGS")
    /\ anIdx' = anIdx + 1
    /\ UNCHANGED <<pc, loadVars, retrVars, parseVars>>
    /\ UNCHANGED <<ids, idx, calls, llmFailures, all_results, csv>>
    /\ UNCHANGED histVars

\* The replies of the model in the report run.
LlmReplies ==
    { << "S", "T", "A", "T", "U", "S", ":", " ", "S", "U", "C", "C", "E", "S", "S",
         " ", "-", " ", "o", "k" >>,
      << "s", "t", "a", "t", "u", "s", ":", " ", "f", "a", "i", "l", "u", "r", "e" >>,
      << "n", "o", " ", "i", "d", "e", "a" >> }

\* Lines 133-143: the application has logs: the model is invoked once and its
\* reply is read.
AnalyzeWithLlm ==
    /\ pc = "analyze"
    /\ anIdx <= Len(applications)
    /\ HasLogs(DictGet(bundle, AnalyzedApp, << >>))
    /\ calls' = [calls EXCEPT ![AnalyzedApp] = @ + 1]
    /\ \E reply \in LlmReplies :
         /\ response' = PyStrip(reply)
         /\ verdict' = ParseStatus(reply)
         /\ analysis' = DictSet(analysis, AnalyzedApp, ParseStatus(reply))
    /\ anIdx' = anIdx + 1
    /\ UNCHANGED <<pc, loadVars, retrVars>>
    /\ UNCHANGED <<ids, idx, llmFailures, all_results, csv>>
    /\ events' = Append(events, InvokeEvent(idx, AnalyzedApp))

\* Line 140: self.llm.invoke raises (the model server is down, the request
\* times out). Nothing between the call and main catches it.
LlmRaises ==
    /\ pc = "analyze"
    /\ anIdx <= Len(applications)
    /\ HasLogs(DictGet(bundle, AnalyzedApp, << >>))
    /\ calls' = [calls EXCEPT ![AnalyzedApp] = @ + 1]
    /\ llmFailures' = llmFailures + 1
    /\ pc' = "crashed"
    /\ UNCHANGED <<loadVars, retrVars, parseVars>>
    /\ UNCHANGED <<ids, idx, anIdx, analysis, all_results, csv>>
    /\ events' = Append(events, InvokeEvent(idx, AnalyzedApp))

\* Lines 168-170: the row, as its (key, value) pairs in insertion order.
BuildRow(corr_id, results) ==
    << << "correlation_id", corr_id >> >> \o
    [ k \in 1..Len(applications) |->
        << applications[k], DictGet(results, applications[k], "NO_LOGS") >> ]

\* A report that keeps one row per distinct correlation id.
AppendRowOnce(rows, row) ==
    IF \E k \in 1..Len(rows) : rows[k][1] = row[1] THEN rows ELSE Append(rows, row)

\* Line 171: all_results.append(row).
AppendRow(rows, row) == Append(rows, row)

\* Lines 144, 161, 167-171: analyze_logs_with_llm returns, the row is appended.
FinishCorrelationId ==
    /\ pc = "analyze"
    /\ anIdx > Len(applications)
    /\ all_results' = AppendRow(all_results, BuildRow(ids[idx], analysis))
    /\ idx' = idx + 1
    /\ pc' = "report"
    /\ UNCHANGED <<loadVars, retrVars, parseVars>>
    /\ UNCHANGED <<ids, anIdx, analysis, calls, llmFailures, csv>>
    /\ UNCHANGED histVars

\* Line 172: pd.DataFrame(all_results): the columns are the keys of the rows in
\* their order; a DataFrame of no rows has no columns.
Columns(rows) ==
    IF rows = << >> THEN << >>
    ELSE [ k \in 1..Len(rows[1]) |-> rows[1][k][1] ]

\* Line 173: df.to_csv(output_file, index=False): the header line names the
\* columns, one line per row follows.
ToCsv(rows) ==
    [ written |-> TRUE,
      header  |-> Columns(rows),
      rows    |-> [ i \in 1..Len(rows) |->
                      [ k \in 1..Len(rows[i]) |-> rows[i][k][2] ] ] ]

\* Lines 172-175: the loop is over, the report is written.
WriteReport ==
    /\ pc = "report"
    /\ idx > Len(ids)
    /\ csv' = ToCsv(all_results)
    /\ pc' = "done"
    /\ UNCHANGED <<loadVars, retrVars, parseVars>>
    /\ UNCHANGED <<ids, idx, anIdx, analysis, calls, llmFailures, all_results>>
    /\ UNCHANGED histVars

----------------------------------------------------------------------------
(* The status pattern applied to replies of the model. *)

\* The pieces the replies are made of.
ReplyPieces ==
    { LitStatus,
      << "S", "t", "a", "t", "u", "s", ":" >>,
      << "S", "T", "A", "T", "U", "S" >>,
      << " " >>,
      << "LF" >>,
      LitSuccess,
      << "f", "a", "i", "l", "u", "r", "e" >>,
      << "F", "A", "U+0130", "L", "U", "R", "E" >>,
      << "[" >> }

MaxPieces == 3

\* The pieces from the k-th on, one after the other.
RECURSIVE Flatten(_, _)
Flatten(parts, k) ==
    IF k > Len(parts) THEN << >> ELSE parts[k] \o Flatten(parts, k + 1)

\* Lines 140-142 on one reply.
ClassifyReply ==
    /\ pc = "classify"
    /\ \E n \in 1..MaxPieces : \E parts \in [1..n -> ReplyPieces] :
         /\ response' = PyStrip(Flatten(parts, 1))
         /\ verdict' = ParseStatus(Flatten(parts, 1))
    /\ pc' = "classified"
    /\ UNCHANGED <<loadVars, retrVars, reportVars>>
    /\ UNCHANGED histVars

----------------------------------------------------------------------------
(* Initial states and specifications. *)

\* The logs directories whose files are made of the lines Pool gives, at most
\* max lines in all.
MkDir(f1, f2) ==
    [a \in AppSet |->
        IF a = "AuthService" THEN f1
        ELSE IF a = "EmailService" THEN f2 ELSE NoFile]

Dirs(Pool(_), max) ==
    UNION { UNION { { MkDir(f1, f2) :
                        f1 \in FilesOfLen(Pool("AuthService"), n1),
                        f2 \in FilesOfLen(Pool("EmailService"), n2) } :
                    n2 \in 0..(max - n1) } :
            n1 \in 0..max }

\* The state after LogAnalysisRAG() on an empty chroma_db path (lines 33-38).
InitLoadVars(dirs) ==
    /\ files \in dirs
    /\ store = << >>
    /\ appIdx = 1
    /\ runs = 1
    /\ total_logs = 0
    /\ lineWarnings = [a \in AppSet |-> 0]
    /\ missingWarnings = {}
    /\ loads = [a \in AppSet |-> 0]

InitRetrVars ==
    /\ bundle = EmptyDict
    /\ qCid = ""
    /\ qTopK = DefaultTopK

InitReportVars(idLists) ==
    /\ ids \in idLists
    /\ idx = 1
    /\ anIdx = 1
    /\ analysis = EmptyDict
    /\ calls = [a \in AppSet |-> 0]
    /\ llmFailures = 0
    /\ all_results = << >>
    /\ csv = [written |-> FALSE, header |-> << >>, rows |-> << >>]

InitParseVars ==
    /\ response = << >>
    /\ verdict = "UNKNOWN"
    /\ events = << >>

\* Ingestion, run up to MaxRuns times over a logs directory of any lines.
InitLoad ==
    /\ pc = "load"
    /\ InitLoadVars(Dirs(LinePool, MaxLines))
    /\ InitRetrVars
    /\ InitReportVars({ << >> })
    /\ InitParseVars

NextLoad == SkipMissingFile \/ LoadFile \/ FinishLoad \/ StartAgain

SpecLoad == InitLoad /\ [][NextLoad]_vars

\* Retrieval, on the store an ingestion of valid lines leaves.
RetrievePool(a) ==
    { ObjectLine(RawOf(a, "c1", "d1")),
      ObjectLine(RawOf(a, "c1", "d2")),
      ObjectLine(RawOf(a, "C1", "d1")),
      ObjectLine(RawOf(OtherFileApp(a), "c1", "d3")) }

InitRetrieve ==
    /\ pc = "load"
    /\ InitLoadVars(Dirs(RetrievePool, MaxLines))
    /\ InitRetrVars
    /\ InitReportVars({ << >> })
    /\ InitParseVars

NextRetrieve == SkipMissingFile \/ LoadFile \/ FinishLoad \/ Retrieve

SpecRetrieve == InitRetrieve /\ [][NextRetrieve]_vars

\* The status pattern on its own.
InitParse ==
    /\ pc = "classify"
    /\ InitLoadVars({ MkDir(NoFile, NoFile) })
    /\ InitRetrVars
    /\ InitReportVars({ << >> })
    /\ InitParseVars

NextParse == ClassifyReply

SpecParse == InitParse /\ [][NextParse]_vars

\* main: ingestion, then the report over the ids of correlation_ids.txt.
FileOf(lines) == [exists |-> TRUE, lines |-> lines]

ReportDirs ==
    { MkDir(FileOf(<< ObjectLine(RawOf("AuthService", "c1", "d1")) >>),
            FileOf(<< ObjectLine(RawOf("EmailService", "c1", "d1")) >>)),
      MkDir(FileOf(<< ObjectLine(RawOf("AuthService", "c1", "d1")),
                      ObjectLine(RawOf("AuthService", "c2", "d1")) >>),
            NoFile),
      MkDir(FileOf(<< >>),
            FileOf(<< ObjectLine(RawOf("EmailService", "c2", "d1")),
                      ObjectLine(RawOf("AuthService", "c1", "d1")) >>)) }

IdPool == { "c1", "c2", "zz" }

MaxIds == 2

IdLists == UNION { [1..n -> IdPool] : n \in 0..MaxIds }

Init ==
    /\ pc = "load"
    /\ InitLoadVars(ReportDirs)
    /\ InitRetrVars
    /\ InitReportVars(IdLists)
    /\ InitParseVars

Next ==
    \/ SkipMissingFile
    \/ LoadFile
    \/ FinishLoad
    \/ StartReport
    \/ ProcessCorrelationId
    \/ AnalyzeNoLogs
    \/ AnalyzeWithLlm
    \/ LlmRaises
    \/ FinishCorrelationId
    \/ WriteReport

Spec == Init /\ [][Next]_vars

----------------------------------------------------------------------------
(* Properties of ingestion. *)

\* A line is valid when it is a JSON object that holds all six fields as strings.
ValidLine(line) ==
    /\ line.kind = "object"
    /\ \A f \in LogEntryFields : f \in DOMAIN line.raw /\ line.raw[f].t = "str"

NValid(lines) == Cardinality({ i \in 1..Len(lines) : ValidLine(lines[i]) })
NMalformed(lines) == Len(lines) - NValid(lines)

\* The entries the collection holds under the ids of application a.
StoredFor(coll, a) == Cardinality({ k \in 1..Len(coll) : coll[k].id[1] = a })

\* The entries a retrieval of correlation id c returns under the ids of a.
RetrievedFor(coll, a, c) ==
    Cardinality({ k \in 1..Len(CollectionGet(coll, c)) :
                    CollectionGet(coll, c)[k].id[1] = a })

NValidWith(lines, c) ==
    Cardinality({ i \in 1..Len(lines) :
                    /\ ValidLine(lines[i])
                    /\ lines[i].raw["correlation_id"].v = c })

\* C1: a file of N valid and M malformed lines yields exactly N stored records
\* and M line-level warnings, and a malformed line never aborts the file. Stated
\* for the first run, on the empty store.
C1_ValidStoredMalformedWarned ==
    runs = 1 =>
        /\ pc # "crashed"
        /\ \A a \in AppSet :
             loads[a] = 1 =>
                /\ StoredFor(store, a) = NValid(files[a].lines)
                /\ lineWarnings[a] = NMalformed(files[a].lines)

NonEmptyLine(line) ==
    /\ ValidLine(line)
    /\ \A f \in LogEntryFields : line.raw[f].v # ""

\* C9 as claimed: every stored record has all six fields present and non-empty,
\* and a line that misses a field or carries an empty one is never stored.
C9_StoredFieldsNonEmpty ==
    /\ \A k \in 1..Len(store) : \A f \in LogEntryFields :
          store[k].metadata[f] \notin {"", "<unset>"}
    /\ \A a \in AppSet :
          loads[a] >= 1 =>
             StoredFor(store, a) =
                Cardinality({ i \in 1..Len(files[a].lines) :
                                NonEmptyLine(files[a].lines[i]) })

\* C9 as amended: every stored record has all six fields present, each a string
\* that may be empty; a line that misses a field (or holds null in one) is never
\* stored, and a line whose fields are all strings is stored, empty or not.
C9_StoredFieldsPresent ==
    /\ \A k \in 1..Len(store) : \A f \in LogEntryFields :
          store[k].metadata[f] # "<unset>"
    /\ \A a \in AppSet :
          loads[a] >= 1 => StoredFor(store, a) = NValid(files[a].lines)

C9_Witness ==
    /\ loads["AuthService"] >= 1
    /\ \E k \in 1..Len(store) : store[k].metadata.details = ""
    /\ \E i \in 1..Len(files["AuthService"].lines) :
          /\ files["AuthService"].lines[i].kind = "object"
          /\ "timestamp" \notin DOMAIN files["AuthService"].lines[i].raw

\* C10: when the file of the application the loop is at is absent, the step
\* prints the warning, loads and inserts nothing, and goes on to the next
\* application; and when the loop is over, every application with a file has its
\* valid records in the store and every application without one has none under
\* its ids.
C10_MissingFileSkipped ==
    [][ /\ ( /\ pc = "load"
             /\ appIdx <= Len(applications)
             /\ ~files[applications[appIdx]].exists )
           => /\ store' = store
              /\ total_logs' = total_logs
              /\ loads' = loads
              /\ missingWarnings' = missingWarnings \cup {applications[appIdx]}
              /\ pc' = "load"
              /\ appIdx' = appIdx + 1
        /\ ( pc = "load" /\ pc' = "loaded" )
           => \A a \in AppSet :
                 IF files[a].exists
                 THEN StoredFor(store', a) = NValid(files[a].lines)
                 ELSE /\ a \in missingWarnings'
                      /\ StoredFor(store', a) = 0
      ]_vars

\* A run that went past an absent file (of AuthService) and stored the records of
\* the application after it in the enumeration.
C10_Witness ==
    /\ pc = "loaded"
    /\ ~files["AuthService"].exists
    /\ files["EmailService"].exists
    /\ "AuthService" \in missingWarnings
    /\ StoredFor(store, "EmailService") >= 1

----------------------------------------------------------------------------
(* Properties of retrieval. *)

Item(e) == [document |-> e.document, metadata |-> e.metadata]

\* The stored entries of application a that carry correlation id c, in store
\* order.
MatchingOf(coll, a, c) ==
    SelectSeq(coll, LAMBDA e : /\ e.metadata.correlation_id = c
                               /\ e.metadata.application = a)

\* The applications that have a stored entry with correlation id c.
MatchingApps(coll, c) ==
    { coll[k].metadata.application :
        k \in { j \in 1..Len(coll) : coll[j].metadata.correlation_id = c } }

\* The keys of the bundle are the applications with a matching entry and each
\* maps to the first qTopK of its matching entries.
BundleIsFirstTopK ==
    /\ DOMAIN bundle = MatchingApps(store, qCid)
    /\ \A a \in DOMAIN bundle :
         LET m == MatchingOf(store, a, qCid) IN
           /\ Len(bundle[a]) = (IF qTopK < Len(m) THEN qTopK ELSE Len(m))
           /\ \A i \in 1..Len(bundle[a]) : bundle[a][i] = Item(m[i])
    /\ MatchingApps(store, qCid) = {} => bundle = EmptyDict

\* C2 as claimed: for every store, correlation id and top_k the keys of the
\* bundle are exactly the applications with a matching entry, each maps to the
\* first top_k of its matching entries in store order, no key maps to an empty
\* list, and an id that matches nothing gives the empty bundle.
C2_NoKeyMapsToEmptyList ==
    pc = "retrieved" =>
        /\ BundleIsFirstTopK
        /\ \A a \in DOMAIN bundle : bundle[a] # << >>

\* C2 as amended: the same for every top_k >= 0, except that a key maps to an
\* empty list exactly when top_k = 0: then every application with a matching
\* entry is a key that maps to the empty list.
C2_BundleOfRetrieval ==
    pc = "retrieved" =>
        /\ BundleIsFirstTopK
        /\ \A a \in DOMAIN bundle : (bundle[a] = << >>) <=> (qTopK = 0)

C2_Witness ==
    /\ pc = "retrieved"
    /\ qTopK >= 1
    /\ Cardinality(DOMAIN bundle) >= 2
    /\ \E a \in DOMAIN bundle : Len(MatchingOf(store, a, qCid)) > qTopK

----------------------------------------------------------------------------
(* Properties of the status pattern. *)

\* A letter and its other case, for the letters A to Z only.
SameLetter(c, p) ==
    \/ c = p
    \/ IsIn(UpperLetters, p) /\ c = LowerLetters[IndexIn(UpperLetters, p)]
    \/ IsIn(LowerLetters, p) /\ c = UpperLetters[IndexIn(LowerLetters, p)]

WordAt(s, i, word) ==
    /\ i >= 1
    /\ i + Len(word) - 1 <= Len(s)
    /\ \A j \in 1..Len(word) : SameLetter(s[i + j - 1], word[j])

\* An occurrence at position i of STATUS:, white space or none, and the word.
OccursAt(s, i, word) ==
    /\ WordAt(s, i, LitStatus)
    /\ \E j \in (i + Len(LitStatus))..Len(s) :
         /\ \A k \in (i + Len(LitStatus))..(j - 1) : IsSpace(s[k])
         /\ WordAt(s, j, word)

Occurrences(s) ==
    { i \in 1..Len(s) : OccursAt(s, i, LitSuccess) \/ OccursAt(s, i, LitFailure) }

FirstOccurrence(s) ==
    CHOOSE i \in Occurrences(s) : \A j \in Occurrences(s) : i <= j

ClaimedVerdict(s) ==
    IF Occurrences(s) = {} THEN "UNKNOWN"
    ELSE IF OccursAt(s, FirstOccurrence(s), LitSuccess) THEN "SUCCESS"
    ELSE "FAILURE"

\* C4: for every reply the verdict is SUCCESS or FAILURE according to the first
\* case-insensitive occurrence of STATUS:, optional white space and SUCCESS or
\* FAILURE, and UNKNOWN when there is none; no other value is produced.
C4_VerdictOfReply ==
    pc = "classified" =>
        /\ verdict \in {"SUCCESS", "FAILURE", "UNKNOWN"}
        /\ verdict = ClaimedVerdict(response)

----------------------------------------------------------------------------
(* Properties of the analysis and the report. *)

AppsWithLogs == { a \in AppSet : a \in DOMAIN bundle /\ Len(bundle[a]) > 0 }

\* C3: while a correlation id is analysed, the model is never invoked for an
\* application that has no logs in the bundle and such an application gets
\* NO_LOGS; the model is invoked once for each application with logs; when
\* analyze_logs_with_llm returns, the invocations made for the id are as many
\* as the known applications with logs.
C3_OneInvocationPerAppWithLogs ==
    /\ \A k \in 1..Len(applications) :
         LET a == applications[k] IN
           /\ calls[a] <= 1
           /\ a \notin AppsWithLogs => calls[a] = 0
           /\ (pc = "analyze" /\ k < anIdx /\ a \notin AppsWithLogs)
                 => DictGet(analysis, a, "") = "NO_LOGS"
           /\ (pc = "analyze" /\ k < anIdx /\ a \in AppsWithLogs) => calls[a] = 1
           /\ (pc = "analyze" /\ k >= anIdx) => calls[a] = 0
    /\ (pc = "analyze" /\ anIdx > Len(applications))
          => Cardinality({ a \in AppSet : calls[a] = 1 }) = Cardinality(AppsWithLogs)

C3_Witness ==
    /\ pc = "analyze"
    /\ anIdx > Len(applications)
    /\ Cardinality(AppsWithLogs) = 2
    /\ Cardinality({ a \in AppSet : calls[a] = 1 }) = 2
    /\ \E a \in AppSet : a \notin DOMAIN bundle /\ analysis[a] = "NO_LOGS"

\* The column of the report that is headed correlation_id, 0 if there is none.
IdColumn ==
    IF \E k \in 1..Len(csv.header) : csv.header[k] = "correlation_id"
    THEN CHOOSE k \in 1..Len(csv.header) : csv.header[k] = "correlation_id"
    ELSE 0

\* C5: the written report has one row per element of the input list, in the
\* order of the list, the i-th row carrying the i-th id; an id that occurs
\* several times has that many rows.
C5_RowPerInputId ==
    pc = "done" =>
        /\ csv.written
        /\ Len(csv.rows) = Len(ids)
        /\ \A i \in 1..Len(ids) :
             /\ IdColumn >= 1
             /\ csv.rows[i][IdColumn] = ids[i]

C5_Witness ==
    /\ pc = "done"
    /\ Len(ids) = 2
    /\ ids[1] = ids[2]
    /\ Len(csv.rows) = 2
    /\ csv.rows[1][1] = csv.rows[2][1]

Verdicts == { "SUCCESS", "FAILURE", "UNKNOWN", "NO_LOGS" }

\* C6: for every input list, the empty one included, the written report has the
\* header correlation_id followed by the eight applications in their fixed
\* order, and every row holds one verdict for each application.
C6_HeaderAndVerdicts ==
    pc = "done" =>
        /\ csv.header = << "correlation_id" >> \o applications
        /\ \A i \in 1..Len(csv.rows) :
             /\ Len(csv.rows[i]) = 1 + Len(applications)
             /\ \A k \in 2..Len(csv.rows[i]) : csv.rows[i][k] \in Verdicts

\* C7: a failed call of the model does not abort the run: the remaining ids are
\* still processed and the report is written.
C7_FailureDoesNotAbort ==
    llmFailures > 0 => pc \in {"analyze", "report", "done"}

----------------------------------------------------------------------------
(* Properties of the order of events in a run of main. *)

Before(p, q) == p < q

\* C11: in every run of main the ingestion of all applications is over before
\* the first query of the store; the store is queried once for each correlation
\* id, and the query for an id comes before every invocation of the model for
\* that id; the ids are worked on one at a time, in the order of the list: no
\* query or invocation for a later id comes before one for an earlier id.
C11_EventOrder ==
    \A p \in 1..Len(events) :
        /\ events[p].kind = "query" =>
              /\ \A k \in 1..Len(applications) :
                    \E q \in 1..Len(events) :
                       /\ events[q] = IngestEvent(applications[k])
                       /\ Before(q, p)
              /\ \A q \in 1..Len(events) :
                    events[q] = events[p] => q = p
        /\ events[p].kind = "ingest" =>
              \A q \in 1..Len(events) : events[q].kind # "ingest" => Before(p, q)
        /\ events[p].kind = "invoke" =>
              /\ \E q \in 1..Len(events) :
                    /\ events[q] = QueryEvent(events[p].j)
                    /\ Before(q, p)
              /\ \A q \in 1..Len(events) :
                    (events[q].kind # "ingest" /\ events[q].j > events[p].j)
                       => Before(p, q)

\* A finished run that invoked the model for the first and for the second id.
C11_Witness ==
    /\ pc = "done"
    /\ Len(ids) = 2
    /\ \E p, q \in 1..Len(events) :
          /\ events[p].kind = "invoke" /\ events[p].j = 1
          /\ events[q].kind = "invoke" /\ events[q].j = 2
          /\ Before(p, q)
    /\ \E a \in AppSet : ~files[a].exists

====
